---- MODULE Spec2Model ----
(***************************************************************************)
(* Model of the mixin update pipeline (src/models/mixins.js) and of the    *)
(* Order model built on it (the two Order definitions of the order module).*)
(*                                                                         *)
(* JavaScript values are records with one shape, so that any two of them   *)
(* can be compared.  An object is a function from its enumerable string    *)
(* keys to values; the symbol-keyed attachments of an object (the two      *)
(* mixin sets and the predecessor reference) are fields of the record that *)
(* carries it.  Money is counted in cents.                                 *)
(***************************************************************************)
EXTENDS Integers, Sequences, FiniteSets, TLC

\* ------------------------------------------------------------------ bounds

\* longest orderItems array a caller supplies
MaxItems == 2
\* largest number of keys in one change set handed to processUpdate
MaxChangeKeys == 2

\* ------------------------------------------------------------ JS values

Undefined == [type |-> "undefined", str |-> "", num |-> 0, arr |-> <<>>]
Null == [type |-> "null", str |-> "", num |-> 0, arr |-> <<>>]
Str(s) == [type |-> "string", str |-> s, num |-> 0, arr |-> <<>>]
Num(n) == [type |-> "number", str |-> "", num |-> n, arr |-> <<>>]
Bool(b) == [type |-> "boolean", str |-> "", num |-> IF b THEN 1 ELSE 0, arr |-> <<>>]
Arr(a) == [type |-> "object", str |-> "array", num |-> 0, arr |-> a]

\* ToBoolean: undefined, null, "", 0 and false are falsy; every array is truthy
Truthy(v) ==
  CASE v.type \in {"undefined", "null"} -> FALSE
    [] v.type = "string" -> v.str # ""
    [] v.type \in {"number", "boolean"} -> v.num # 0
    [] OTHER -> TRUE

IsArray(v) == v.type = "object" /\ v.str = "array"

\* the property name a key value is converted to in o[key]
PropName(k) == IF k.type = "string" THEN k.str ELSE k.type


EmptyObj == [k \in {} |-> Undefined]

\* o[key]
Get(f, k) == IF k \in DOMAIN f THEN f[k] ELSE Undefined

\* { ...a, ...b }
Merge(a, b) == [k \in DOMAIN a \cup DOMAIN b |-> IF k \in DOMAIN b THEN b[k] ELSE a[k]]

\* --------------------------------------------------------- order constants

MAXORDER == 9999999

orderItems == "orderItems"
customerInfo == "customerInfo"
shippingAddress == "shippingAddress"
billingAddress == "billingAddress"
proofOfDelivery == "proofOfDelivery"
creditCardNumber == "creditCardNumber"
paymentAuthorization == "paymentAuthorization"
signatureRequired == "signatureRequired"
orderStatus == "orderStatus"
orderTotal == "orderTotal"
orderNo == "orderNo"
cancelReason == "cancelReason"
trackingId == "trackingId"
trackingStatus == "trackingStatus"
pickupAddress == "pickupAddress"
shipmentId == "shipmentId"

PENDING == "PENDING"
APPROVED == "APPROVED"
SHIPPING == "SHIPPING"
COMPLETE == "COMPLETE"
CANCELED == "CANCELED"

OrderStatus == <<PENDING, APPROVED, SHIPPING, COMPLETE, CANCELED>>

Range(s) == {s[i] : i \in DOMAIN s}

\* The two Order definitions of the order module: "Order" is the model
\* specification object `Order` (with its `mixins`), "orderMixins" the
\* exported factory `orderFactory` with the exported list `orderMixins`.
OrderDefs == {"Order", "orderMixins"}

\* ------------------------------------------------------- objects in flight

\* An object with its symbol-keyed attachments: f the enumerable string
\* keys, pre / post the names in the two mixin sets in insertion order (<<>>:
\* no set attached), prev the predecessor reference (of which the guards read
\* orderStatus only).
NoPrev == [set |-> FALSE, orderStatus |-> Undefined]
PrevOf(model) == [set |-> TRUE, orderStatus |-> Get(model.f, orderStatus)]
Obj(f) == [f |-> f, pre |-> <<>>, post |-> <<>>, prev |-> NoPrev]

\* what a guard returns: the object, or the Error it throws
NoError == [msg |-> "", keys |-> {}, missing |-> <<>>]
Ok(o) == [o |-> o, error |-> NoError]
Throw(o, msg, keys, missing) ==
  [o |-> o, error |-> [msg |-> msg, keys |-> keys, missing |-> missing]]
Failed(r) == r.error.msg # ""

\* ------------------------------------------------------------ order helpers

\* checkItems: the items array, or the Error thrown ("" in msg: none).  An
\* item is a record [itemId, price]; price is a number in every item drawn.
checkItems(items) ==
  IF ~Truthy(items) THEN [msg |-> "order contains no items", items |-> <<>>]
  ELSE LET _items == IF IsArray(items) THEN items.arr ELSE <<items>>
       IN IF Len(_items) > 0 /\ \A i \in DOMAIN _items : _items[i].itemId # ""
          THEN [msg |-> "", items |-> _items]
          ELSE [msg |-> "order items invalid", items |-> <<>>]

RECURSIVE SumPrices(_)
SumPrices(s) == IF s = <<>> THEN 0 ELSE s[1].price + SumPrices(Tail(s))

\* calcTotal with a reducer that assigns instead of adding: the total is the
\* price of the last item
calcTotalLast(items) ==
  LET c == checkItems(items)
  IN [msg |-> c.msg,
      total |-> IF c.items = <<>> THEN 0 ELSE c.items[Len(c.items)].price]

\* calcTotal: reduce((total, item) => total += item.price, 0) over checkItems
calcTotal(items) ==
  LET c == checkItems(items)
  IN [msg |-> c.msg, total |-> SumPrices(c.items)]

\* freezeOnApproval reading the status of the object it is given (the
\* changes) instead of the status of its predecessor
freezeOnApprovalProposed(propKey, o) ==
  IF Get(o.f, orderStatus) # Str(PENDING) THEN Str(propKey) ELSE Null

\* freezeOnApproval freezing approved orders only, not canceled ones
freezeOnApprovalOnlyApproved(propKey, o) ==
  IF o.prev.orderStatus = Str(APPROVED) THEN Str(propKey) ELSE Null

\* freezeOnApproval(propKey)(o)
freezeOnApproval(propKey, o) ==
  IF o.prev.orderStatus # Str(PENDING) THEN Str(propKey) ELSE Null

\* freezeOnCompletion without the CANCELED case
freezeOnCompletionOnlyComplete(propKey, o) ==
  IF o.prev.orderStatus = Str(COMPLETE) THEN Str(propKey) ELSE Null

\* freezeOnCompletion(propKey)(o)
freezeOnCompletion(propKey, o) ==
  IF o.prev.orderStatus \in {Str(COMPLETE), Str(CANCELED)} THEN Str(propKey) ELSE Null

\* requiredForCompletion(propKey)(o)
requiredForCompletion(propKey, o) ==
  IF ~Truthy(Get(o.f, orderStatus)) THEN Undefined
  ELSE IF Get(o.f, orderStatus) = Str(COMPLETE) THEN Str(propKey) ELSE Undefined

\* invalidStatusChange that looks at the proposed status only
invalidStatusChangeAnyFrom(from, to, o, propVal) ==
  propVal = to

\* invalidStatusChange(from, to)(o, propVal)
invalidStatusChange(from, to, o, propVal) ==
  propVal = to /\ o.prev.orderStatus = from

\* invalidStatusChanges.  In the Order definition the third entry is written
\* orderStatus.APPROVED: a property of the string 'orderStatus', undefined.
invalidStatusChanges(def) ==
  << [from |-> Str(APPROVED), to |-> Str(PENDING)],
     [from |-> Str(SHIPPING), to |-> Str(PENDING)],
     [from |-> Str(SHIPPING),
      to |-> IF def = "Order" THEN Undefined ELSE Str(APPROVED)],
     [from |-> Str(PENDING), to |-> Str(SHIPPING)],
     [from |-> Str(PENDING), to |-> Str(COMPLETE)] >>

\* statusChangeValid(o, propVal): TRUE when it returns true, FALSE when it
\* throws 'invalid status change' (it never returns false)
statusChangeValid(def, o, propVal) ==
  \/ ~(o.prev.set /\ Truthy(o.prev.orderStatus))
  \/ ~\E i \in DOMAIN invalidStatusChanges(def) :
        invalidStatusChange(invalidStatusChanges(def)[i].from,
                            invalidStatusChanges(def)[i].to, o, propVal)

\* readyToDelete without the CANCELED case
readyToDeleteOnlyComplete(model) ==
  IF Get(model.f, orderStatus) = Str(COMPLETE) THEN Ok(model)
  ELSE Throw(model, "order status incomplete", {}, <<>>)

\* readyToDelete(model): the model, or the Error thrown
readyToDelete(model) ==
  IF Get(model.f, orderStatus) \in {Str(COMPLETE), Str(CANCELED)} THEN Ok(model)
  ELSE Throw(model, "order status incomplete", {}, <<>>)

\* OrderActions[status]: the calls of external collaborators the workflow
\* step of the status makes, in the order it makes them.  In the Order
\* definition the steps call the adapters without callbacks.
OrderActions(def, status) ==
  IF def = "Order"
  THEN CASE status = PENDING -> <<>>
         [] status = APPROVED -> <<"completePayment", "shipOrder">>
         [] status = SHIPPING -> <<"trackShipment">>
         [] status = CANCELED -> <<"refundPayment">>
         [] status = COMPLETE -> <<"verifyDelivery">>
  ELSE CASE status = PENDING -> <<"validateAddress", "authorizePayment">>
         [] status = APPROVED -> <<"fillOrder">>
         [] status = SHIPPING -> <<"trackShipment">>
         [] status = CANCELED -> <<"refundPayment">>
         [] status = COMPLETE -> <<>>

\* handleStatusChange(order): the step of the order's status is run
handleStatusChange(def, model) ==
  [status |-> Get(model.f, orderStatus),
   calls |-> OrderActions(def, Get(model.f, orderStatus).str)]

\* whether the event handler of the definition calls handleStatusChange:
\* handleOrderEvent on a status in the changes or a CREATE event, the handler
\* of the Order definition on a status in the changes only
handleOrderEvent(def, event) ==
  \/ Truthy(Get(event.changes, orderStatus))
  \/ def # "Order" /\ event.eventType = "CREATE"

\* ------------------------------------------------------------ guard library

\* a property key handed to a guard factory: a literal name, or one of the
\* order module's key-producing functions closed over a name
Lit(k) == [fn |-> "literal", key |-> k]
Dyn(fn, k) == [fn |-> fn, key |-> k]

\* getDynamicProps, one key: k(o) for a function, k otherwise
ResolveKey(k, o) ==
  CASE k.fn = "freezeOnApproval" -> freezeOnApproval(k.key, o)
    [] k.fn = "freezeOnCompletion" -> freezeOnCompletion(k.key, o)
    [] k.fn = "requiredForCompletion" -> requiredForCompletion(k.key, o)
    [] OTHER -> Str(k.key)

getDynamicProps(o, propKeys) == [i \in DOMAIN propKeys |-> ResolveKey(propKeys[i], o)]

\* Array.prototype.includes of a string key in a list of resolved keys
Includes(keys, name) == \E i \in DOMAIN keys : keys[i] = Str(name)

\* updateMixins(type, o, name, cb): the name is added to the set of the phase
\* unless it is there
updateMixins(type, o, name) ==
  IF type = "pre"
  THEN IF name \in Range(o.pre) THEN o ELSE [o EXCEPT !.pre = Append(@, name)]
  ELSE IF name \in Range(o.post) THEN o ELSE [o EXCEPT !.post = Append(@, name)]

\* The same function with the Maps as the objects they are.  A snapshot
\* refers to the Map of a phase (NoMap: it has none), and maps gives the
\* names each Map holds, in the order they were set.
NoMap == "none"
NewMap(type) == type

\* updateMixins(type, o, name, cb) on the snapshot o = [f, pre, post]: the
\* snapshot returned, the Maps after the call, and whether cb was called
updateMixinSet(type, o, name, maps) ==
  LET mixinSet == IF o[type] # NoMap THEN o[type] ELSE NewMap(type)
      names == IF o[type] # NoMap THEN maps[mixinSet] ELSE <<>>
  IN IF name \notin Range(names)
     THEN [o |-> [o EXCEPT ![type] = mixinSet],
           maps |-> [maps EXCEPT ![mixinSet] = Append(names, name)],
           built |-> TRUE]
     ELSE [o |-> o, maps |-> maps, built |-> FALSE]

\* requireProperties(...propKeys)(o)
requireProperties(propKeys, o) ==
  LET keys == getDynamicProps(o, propKeys)
      IsMissing(key) == ~Truthy(Get(o.f, PropName(key)))
      missing == SelectSeq(keys, IsMissing)
  IN IF Len(missing) > 0
     THEN Throw(o, "missing required properties", {}, missing)
     ELSE Ok(o)

\* freezeProperties(isUpdate, ...propKeys)(o)
freezeProperties(isUpdate, propKeys, o) ==
  LET keys == getDynamicProps(o, propKeys)
      mutations == {key \in DOMAIN o.f : Includes(keys, key)}
  IN IF isUpdate /\ mutations # {}
     THEN Throw(o, "cannot update readonly properties", mutations, <<>>)
     ELSE Ok(updateMixins("pre", o, "freezeProperties"))

\* allowProperties that reports the first unknown property only
allowPropertiesFirst(isUpdate, propKeys, o) ==
  LET allowList == getDynamicProps(o, propKeys)
      unknownProps == {key \in DOMAIN o.f : ~Includes(allowList, key)}
  IN IF isUpdate /\ unknownProps # {}
     THEN Throw(o, "invalid properties", {CHOOSE key \in unknownProps : TRUE}, <<>>)
     ELSE Ok(updateMixins("pre", o, "allowProperties"))

\* allowProperties(isUpdate, ...propKeys)(o); internalPropList is empty
allowProperties(isUpdate, propKeys, o) ==
  LET allowList == getDynamicProps(o, propKeys)
      unknownProps == {key \in DOMAIN o.f : ~Includes(allowList, key)}
  IN IF isUpdate /\ unknownProps # {}
     THEN Throw(o, "invalid properties", unknownProps, <<>>)
     ELSE Ok(updateMixins("pre", o, "allowProperties"))

\* recalcTotal(o, propVal)
recalcTotal(o, propVal) ==
  LET t == calcTotal(propVal)
  IN [msg |-> t.msg, f |-> (orderTotal :> Num(t.total))]

\* updateProps of updateProperties: the updaters whose propKey is truthy in o
\* are run and their results merged, later ones winning
RECURSIVE updateProps(_, _, _)
updateProps(isUpdate, updaters, o) ==
  IF ~isUpdate \/ updaters = <<>> THEN [msg |-> "", f |-> EmptyObj]
  ELSE LET u == updaters[1]
           rest == updateProps(isUpdate, Tail(updaters), o)
       IN IF ~Truthy(Get(o.f, u.propKey)) THEN rest
          ELSE LET r == recalcTotal(o, Get(o.f, u.propKey))
               IN IF r.msg # "" THEN r
                  ELSE [msg |-> rest.msg, f |-> Merge(r.f, rest.f)]

\* updateProperties(isUpdate, updaters)(o)
updateProperties(isUpdate, updaters, o) ==
  LET mixins == updateMixins("pre", o, "updateProperties")
      updates == updateProps(isUpdate, updaters, o)
  IN IF updates.msg # "" THEN Throw(o, updates.msg, {}, <<>>)
     ELSE Ok([mixins EXCEPT !.f = Merge(@, updates.f)])

\* validator.isValid without the maxnum test
validatorIsValidNoMax(def, v, o, propVal) ==
  IF v.isValid # "" /\ ~statusChangeValid(def, o, propVal) THEN "throw"
  ELSE IF v.values # <<>> /\ propVal \notin Range(v.values) THEN "invalid"
  ELSE IF v.typeof # "" /\ v.typeof # propVal.type THEN "invalid"
  ELSE "valid"

\* validator.isValid(v, o, propVal): "valid", "invalid", or "throw" when the
\* custom predicate throws.  The tests run in the order isValid, values,
\* typeof, maxnum and stop at the first that fails; a test whose entry in the
\* spec is falsy is skipped.
validatorIsValid(def, v, o, propVal) ==
  IF v.isValid # "" /\ ~statusChangeValid(def, o, propVal) THEN "throw"
  ELSE IF v.values # <<>> /\ propVal \notin Range(v.values) THEN "invalid"
  ELSE IF v.typeof # "" /\ v.typeof # propVal.type THEN "invalid"
  ELSE IF v.maxnum # 0 /\ ~(propVal.type = "number" /\ v.maxnum > propVal.num)
       THEN "invalid"
  ELSE "valid"

\* validateProperties(validations)(o)
validateProperties(def, validations, o) ==
  LET verdict(v) == IF ~Truthy(Get(o.f, v.propKey)) THEN "valid"
                    ELSE validatorIsValid(def, v, o, Get(o.f, v.propKey))
      invalid == {validations[i].propKey :
                    i \in {j \in DOMAIN validations : verdict(validations[j]) = "invalid"}}
  IN IF \E i \in DOMAIN validations : verdict(validations[i]) = "throw"
     THEN Throw(o, "invalid status change", {}, <<>>)
     ELSE IF invalid # {}
     THEN Throw(o, "invalid value for", invalid, <<>>)
     ELSE Ok(updateMixins("post", o, "validateProperties"))

\* ------------------------------------------------ the Order's guard lists

\* requirePropertiesMixin(...) of both definitions
requireKeys ==
  << Lit(customerInfo), Lit(orderItems), Lit(creditCardNumber),
     Lit(shippingAddress), Lit(billingAddress),
     Dyn("requiredForCompletion", proofOfDelivery) >>

\* a freeze list without customerInfo
freezeKeysAfterApproval ==
  << Dyn("freezeOnApproval", orderItems),
     Dyn("freezeOnApproval", creditCardNumber),
     Dyn("freezeOnApproval", shippingAddress),
     Dyn("freezeOnApproval", billingAddress),
     Dyn("freezeOnCompletion", orderStatus) >>

\* freezePropertiesMixin(...) of both definitions
freezeKeys ==
  << Lit(customerInfo),
     Dyn("freezeOnApproval", orderItems),
     Dyn("freezeOnApproval", creditCardNumber),
     Dyn("freezeOnApproval", shippingAddress),
     Dyn("freezeOnApproval", billingAddress),
     Dyn("freezeOnCompletion", orderStatus) >>

\* updatePropertiesMixin([...]) of both definitions
updaters == << [propKey |-> orderItems, update |-> "recalcTotal"] >>

\* validatePropertiesMixin([...]) of both definitions; an entry a spec does
\* not have is "", <<>> or 0
validations ==
  << [propKey |-> orderStatus, isValid |-> "statusChangeValid",
      values |-> [i \in DOMAIN OrderStatus |-> Str(OrderStatus[i])],
      typeof |-> "", maxnum |-> 0],
     [propKey |-> orderTotal, isValid |-> "", values |-> <<>>,
      typeof |-> "", maxnum |-> MAXORDER] >>

\* allowPropertiesMixin(...) of the Order definition
allowKeys ==
  << Lit(orderItems), Lit(customerInfo), Lit(shippingAddress),
     Lit(billingAddress), Lit(proofOfDelivery), Lit(creditCardNumber),
     Lit(paymentAuthorization), Lit(signatureRequired), Lit(orderStatus),
     Lit(orderTotal) >>

\* the guards of a definition, in the order of its list
MixinList(def) ==
  IF def = "Order"
  THEN << "requireProperties", "freezeProperties", "updateProperties",
          "validateProperties", "allowProperties" >>
  ELSE << "requireProperties", "freezeProperties", "updateProperties",
          "validateProperties" >>

\* one guard of the definition applied to o: isUpdate is false in the guard
\* the list holds and true in the guard a mixin set holds
RunMixin(def, name, isUpdate, o) ==
  CASE name = "requireProperties" -> requireProperties(requireKeys, o)
    [] name = "freezeProperties" -> freezeProperties(isUpdate, freezeKeys, o)
    [] name = "updateProperties" -> updateProperties(isUpdate, updaters, o)
    [] name = "validateProperties" -> validateProperties(def, validations, o)
    [] OTHER -> allowProperties(isUpdate, allowKeys, o)

\* compose(...funcs)(o): the guards named in funcs applied one after the
\* other, each to the result of the one before; the first Error ends it
RECURSIVE compose(_, _, _, _)
compose(def, funcs, isUpdate, o) ==
  IF funcs = <<>> THEN Ok(o)
  ELSE LET r == RunMixin(def, funcs[1], isUpdate, o)
       IN IF Failed(r) THEN r ELSE compose(def, Tail(funcs), isUpdate, r.o)

\* processUpdate, the pre phase: compose(...model[PREMIXINS].values())(changes)
\* when the model has a pre set, the changes as they are otherwise
preUpdates(def, model, changes) ==
  IF model.pre # <<>> THEN compose(def, model.pre, TRUE, changes) ELSE Ok(changes)

\* the merge written { ...updates, ...model }: the model wins
spreadModelWins(model, updates) ==
  [f |-> Merge(updates.f, model.f),
   pre |-> IF updates.pre # <<>> THEN updates.pre ELSE model.pre,
   post |-> IF updates.post # <<>> THEN updates.post ELSE model.post,
   prev |-> updates.prev]

\* processUpdate, the merge: { ...model, ...updates }, the symbol-keyed
\* attachments of updates winning over those of the model
spread(model, updates) ==
  [f |-> Merge(model.f, updates.f),
   pre |-> IF updates.pre # <<>> THEN updates.pre ELSE model.pre,
   post |-> IF updates.post # <<>> THEN updates.post ELSE model.post,
   prev |-> updates.prev]

\* the post phase run on the merge although the pre phase threw
postUpdatesIgnorePre(def, model, pre) ==
  IF model.post # <<>> THEN compose(def, model.post, TRUE, spread(model, pre.o))
  ELSE Ok(spread(model, pre.o))

\* processUpdate, the post phase on the merged object; an Error of the pre
\* phase leaves the model as it is
postUpdates(def, model, pre) ==
  IF Failed(pre) THEN Throw(model, pre.error.msg, pre.error.keys, pre.error.missing)
  ELSE IF model.post # <<>> THEN compose(def, model.post, TRUE, spread(model, pre.o))
  ELSE Ok(spread(model, pre.o))

\* processUpdate that tags the changes with the model's own predecessor when
\* the model has one
processUpdateOldPrev(def, model, changes) ==
  postUpdates(def, model,
              preUpdates(def, model,
                         [Obj(changes) EXCEPT
                            !.prev = IF model.prev.set THEN model.prev ELSE PrevOf(model)]))

\* processUpdate(model, changes): the new snapshot, or the Error thrown
processUpdate(def, model, changes) ==
  postUpdates(def, model,
              preUpdates(def, model, [Obj(changes) EXCEPT !.prev = PrevOf(model)]))

\* ----------------------------------------------------------------- factory

\* createOrder of the definition: the frozen order object, or the Error
\* thrown by checkItems.  checkFormat(creditCardNumber, 'creditCard') builds
\* a closure that is never applied.  In the Order definition the address and
\* payment adapters are awaited: the address comes back as given and the
\* authorization is the adapter's token.
createOrder(def, input) ==
  LET items == checkItems(Get(input, orderItems))
      common ==
        (customerInfo :> Get(input, customerInfo)) @@
        (orderItems :> Get(input, orderItems)) @@
        (creditCardNumber :> Get(input, creditCardNumber)) @@
        (billingAddress :> Get(input, billingAddress)) @@
        (signatureRequired :> Bool(FALSE)) @@
        (shippingAddress :> Get(input, shippingAddress)) @@
        (orderTotal :> Num(calcTotal(Get(input, orderItems)).total)) @@
        (orderStatus :> Str(PENDING)) @@
        (orderNo :> Str("order1"))
      order == IF def = "Order"
               THEN common @@ (proofOfDelivery :> Null)
                           @@ (paymentAuthorization :> Str("auth1"))
               ELSE common
  IN IF items.msg # "" THEN Throw(Obj(EmptyObj), items.msg, {}, <<>>)
     ELSE Ok(Obj(order))

\* the guards of the list that put themselves into a mixin set when first
\* applied; requireProperties does not (its verdict on a new order is the
\* action RequireOrder)
StickyMixins(def) ==
  SelectSeq(MixinList(def), LAMBDA name : name # "requireProperties")

\* ------------------------------------------------------------------ inputs

Prices == {1, 9999998}
Item(p) == [itemId |-> "item1", price |-> p]
ItemLists == UNION {[1..n -> {Item(p) : p \in Prices}] : n \in 0..MaxItems}
ItemValues == {Null} \cup {Arr(l) : l \in ItemLists}

InputKeys == {customerInfo, orderItems, shippingAddress, billingAddress, creditCardNumber}

InputValues(k) ==
  CASE k = customerInfo -> {Str("user1")}
    [] k = orderItems -> ItemValues
    [] k = creditCardNumber -> {Str("378282246310005")}
    [] OTHER -> {Str("addr1")}

\* the card numbers of the service's tests: a card number, and the one that
\* is a digit short
CardNumbers == {Str("378282246310005"), Str("37828224631000")}

\* The change sets a caller hands to processUpdate are drawn in two families,
\* each over the keys its claims are about.
\* "status": the status, the keys frozen on approval and the proof of delivery
StatusKeys ==
  {orderStatus, orderItems, shippingAddress, billingAddress, creditCardNumber,
   proofOfDelivery}
\* "total": the items, the total and the approval of the order
TotalKeys == {orderItems, orderTotal, orderStatus}
\* "allow": keys of the allow list and keys that are not in it
AllowFamilyKeys == {orderStatus, shippingAddress, cancelReason, trackingId}

\* the values a caller gives key k: of a createOrder input ("input"), or of a
\* change set of the family.  The billing address and the card number are
\* proposed with the value the order has.
ValuesOf(kind, k) ==
  CASE kind = "input" -> InputValues(k)
    [] kind = "card" -> IF k = creditCardNumber THEN CardNumbers ELSE InputValues(k)
    [] kind = "reset" -> {Str(OrderStatus[i]) : i \in DOMAIN OrderStatus} \cup {Null}
    [] kind = "info" ->
         IF k = customerInfo THEN {Str("user1"), Str("user2")}
         ELSE {Str(OrderStatus[i]) : i \in DOMAIN OrderStatus}
    [] kind = "merged" ->
         IF k = orderStatus
         THEN {Str(OrderStatus[i]) : i \in DOMAIN OrderStatus} \cup {Str("BOGUS"), Str("")}
         ELSE {Num(0), Num(1), Num(MAXORDER + 1)}
    [] k = orderStatus ->
         IF kind = "status" THEN {Str(OrderStatus[i]) : i \in DOMAIN OrderStatus}
         ELSE {Str(APPROVED)}
    [] k = orderItems ->
         IF kind = "status" THEN {Arr(<<Item(1)>>)} ELSE ItemValues
    [] k = creditCardNumber -> {Str("378282246310005")}
    [] k = proofOfDelivery -> {Str("signature")}
    [] k = orderTotal -> {Num(5)}
    [] k = shippingAddress -> {Str("addr2")}
    [] OTHER -> {Str("addr1")}

\* the objects over the keys K with the values of that kind
RECURSIVE ObjectsOver(_, _)
ObjectsOver(K, kind) ==
  IF K = {} THEN {EmptyObj}
  ELSE LET k == CHOOSE x \in K : TRUE
       IN {Merge(o, k :> v) : o \in ObjectsOver(K \ {k}, kind), v \in ValuesOf(kind, k)}

\* every input a caller hands to createOrder: any of the keys may be left out
Inputs == UNION {ObjectsOver(K, "input") : K \in SUBSET InputKeys}

\* the complete inputs, with either card number
CardInputs == ObjectsOver(InputKeys, "card")

\* the merged objects validateProperties is applied to: a status and a
\* total, each present or not, valid or not, after an order of any status
\* or after none
MergedObjects ==
  {[f |-> f, pre |-> <<>>, post |-> <<>>, prev |-> p] :
     f \in UNION {ObjectsOver(K, "merged") : K \in SUBSET {orderStatus, orderTotal}},
     p \in {NoPrev} \cup {[set |-> TRUE, orderStatus |-> Str(OrderStatus[i])] :
                             i \in DOMAIN OrderStatus}}

\* the change sets of a family: at most MaxChangeKeys of its keys
ChangesOver(keys, kind) ==
  UNION {ObjectsOver(K, kind) :
           K \in {S \in SUBSET keys : Cardinality(S) <= MaxChangeKeys}}

StatusChanges == ChangesOver(StatusKeys, "status")
TotalChanges == ChangesOver(TotalKeys, "total")
AllowChanges == ChangesOver(AllowFamilyKeys, "allow")
\* the change sets that hold at most a status
StatusOnlyChanges == ChangesOver({orderStatus}, "status")
\* the change sets over the customer, as it is or another, and the status
InfoChanges == ChangesOver({customerInfo, orderStatus}, "info")
\* the change sets that hold at most a status, or null for one
ResetChanges == ChangesOver({orderStatus}, "reset")

\* ------------------------------------------------------------------- state

VARIABLES
  def,     \* the Order definition the service runs
  order,   \* the stored snapshot (NoOrder: none yet)
  last,    \* the last call: operation, argument, status before, Error thrown
  events,  \* the event waiting for the definition's event handler
  steps,   \* the workflow step handleStatusChange ran last
  tasks,   \* the calls of order.update in flight, by callback name
  requests, \* the calls of external collaborators the last step made
  errors   \* the failures in the last step: where, and who saw them

vars == <<def, order, last, events, steps, tasks, requests, errors>>

\* the part of the state the workflow owns
workflow == <<events, steps, tasks, requests, errors>>

NoEvent == [eventType |-> "", changes |-> EmptyObj]
NoStep == [status |-> Undefined, calls |-> <<>>]
NoTasks == [t \in {} |-> EmptyObj]

NoOrder == Obj(EmptyObj)

Call(op, arg, from, error) == [op |-> op, arg |-> arg, from |-> from, error |-> error]

Init ==
  /\ def \in OrderDefs
  /\ order = NoOrder
  /\ last = Call("none", EmptyObj, Undefined, NoError)
  /\ events = NoEvent
  /\ steps = NoStep
  /\ tasks = NoTasks
  /\ requests = <<>>
  /\ errors = {}

\* the require guard of the definition applied to the order a factory built
RequireOrder(input) ==
  /\ order = NoOrder
  /\ LET made == createOrder(def, input)
         r == IF Failed(made) THEN made ELSE requireProperties(requireKeys, made.o)
     IN last' = Call("require", input, Undefined, r.error)
  /\ UNCHANGED <<def, order>>

\* an order is created: the factory builds it and the sticky guards of the
\* list are applied to it for the first time; the result is stored
CreateOrder(input) ==
  /\ order = NoOrder
  /\ DOMAIN input = InputKeys
  /\ LET made == createOrder(def, input)
         r == IF Failed(made) THEN made
              ELSE compose(def, StickyMixins(def), FALSE, made.o)
     IN /\ last' = Call("create", input, Undefined, r.error)
        /\ order' = IF Failed(r) THEN order ELSE r.o
  /\ UNCHANGED def

\* updateOrder that saves what processUpdate was working on when it threw
UpdateOrderSaves(changes) ==
  /\ order # NoOrder
  /\ LET r == processUpdate(def, order, changes)
     IN /\ last' = Call("update", changes, Get(order.f, orderStatus), r.error)
        /\ order' = r.o
  /\ UNCHANGED def

\* the stored order is updated: processUpdate on the stored snapshot, and the
\* snapshot it returns is stored
UpdateOrder(changes) ==
  /\ order # NoOrder
  /\ LET r == processUpdate(def, order, changes)
     IN /\ last' = Call("update", changes, Get(order.f, orderStatus), r.error)
        /\ order' = IF Failed(r) THEN order ELSE r.o
  /\ UNCHANGED def

Next ==
  \/ \E input \in Inputs : RequireOrder(input) /\ UNCHANGED workflow
  \/ \E input \in Inputs : CreateOrder(input) /\ UNCHANGED workflow
  \/ \E changes \in StatusChanges : UpdateOrder(changes) /\ UNCHANGED workflow

\* the order under the change sets of the status family
Spec == Init /\ [][Next]_vars

NextTotal ==
  \/ \E input \in Inputs : RequireOrder(input) /\ UNCHANGED workflow
  \/ \E input \in Inputs : CreateOrder(input) /\ UNCHANGED workflow
  \/ \E changes \in TotalChanges : UpdateOrder(changes) /\ UNCHANGED workflow

\* the order under the change sets of the total family
SpecTotal == Init /\ [][NextTotal]_vars

NextAllow ==
  \/ \E input \in Inputs : RequireOrder(input) /\ UNCHANGED workflow
  \/ \E input \in Inputs : CreateOrder(input) /\ UNCHANGED workflow
  \/ \E changes \in AllowChanges : UpdateOrder(changes) /\ UNCHANGED workflow

\* the order under the change sets of the allow family
SpecAllow == Init /\ [][NextAllow]_vars

\* the models onDelete is called with: the stored order, and a model that
\* has no orderStatus
DeleteRequests ==
  {order, [order EXCEPT !.f = [k \in DOMAIN order.f \ {orderStatus} |-> order.f[k]]]}

\* the order is deleted: onDelete is readyToDelete(model), and the order is
\* removed when it returns
DeleteOrder(model) ==
  /\ order # NoOrder
  /\ LET r == readyToDelete(model)
     IN /\ last' = Call("delete", EmptyObj, Get(model.f, orderStatus), r.error)
        /\ order' = IF Failed(r) THEN order ELSE NoOrder
  /\ UNCHANGED def

\* the event the service raises for an accepted request
Event(eventType, changes) == [eventType |-> eventType, changes |-> changes]

\* the values the adapters call back with
ValidatedAddress == Str("addr2")
Authorization == Str("auth2")
TrackingId == Str("track1")
TrackingStatuses == {Str("outForDelivery"), Str("orderDelivered")}
Proof == Str("proof1")
ShipmentId == Str("ship1")
WarehouseAddr == Str("warehouse1")

\* the keys of the options object a port hands to the callback of its adapter
PortOptions == {"model", "resolve"}

\* the keys of the object the fillOrder adapter hands to its callback, as its
\* only argument
FillOrderOptions == {"order", "pickupAddress", "eventName", "resolve"}

\* an adapter was called with a callback: the callback will be called with
\* the options and will call order.update(changes)
Called(options, changes) ==
  [pc |-> "called", options |-> options, changes |-> changes, current |-> NoOrder]

\* an adapter was called without a callback and is awaited
Awaited == [pc |-> "awaited", options |-> {}, changes |-> EmptyObj, current |-> NoOrder]

\* the adapter calls a step of orderMixins makes, by the callback they are
\* given (refundPayment is given none); ts is the status the tracking
\* adapter will report.  orderFilled(options, pickupAddress) is called by
\* the fillOrder adapter with one argument.  The steps of the Order
\* definition give their adapters no callback.
Callbacks(step, ts) ==
  IF def = "Order" THEN NoTasks
  ELSE IF step.calls = <<"validateAddress", "authorizePayment">>
  THEN ("addressValidated" :> Called(PortOptions, shippingAddress :> ValidatedAddress)) @@
       ("paymentAuthorized" :> Called(PortOptions, paymentAuthorization :> Authorization))
  ELSE IF step.calls = <<"fillOrder">>
  THEN "orderFilled" :> Called(FillOrderOptions, pickupAddress :> Undefined)
  ELSE IF step.calls = <<"trackShipment">> /\ step.status = Str(SHIPPING)
  THEN "trackingUpdate" :>
         Called(PortOptions, (trackingId :> TrackingId) @@ (trackingStatus :> ts))
  ELSE IF step.calls = <<"refundPayment">> /\ step.status = Str(CANCELED)
  THEN "refundPayment" :> Awaited
  ELSE NoTasks

\* callbacks of which trackingUpdate verifies the delivery whatever the
\* tracking status
ThenAnyStatus(t, changes) ==
  IF t = "trackingUpdate"
  THEN [made |-> <<"verifyDelivery">>, dispatch |-> FALSE,
        tasks |-> "deliveryVerified" :> Called(PortOptions, proofOfDelivery :> Proof)]
  ELSE IF t = "deliveryVerified"
  THEN [made |-> <<"completePayment">>, dispatch |-> FALSE,
        tasks |-> "paymentCompleted" :> Called(PortOptions, orderStatus :> Str(COMPLETE))]
  ELSE IF t = "orderFilled"
  THEN [made |-> <<"shipOrder">>, dispatch |-> FALSE,
        tasks |-> "orderShipped" :>
           Called(PortOptions, (shipmentId :> ShipmentId) @@ (orderStatus :> Str(SHIPPING)))]
  ELSE [made |-> <<>>, dispatch |-> t \in {"paymentCompleted", "orderShipped"},
        tasks |-> NoTasks]

\* what a callback does with the order its update returned: the adapter it
\* calls and the callback it gives it, and whether it calls
\* handleStatusChange (orderShipped resolves the promise of shipOrder, on
\* which orderFilled calls it)
Then(t, changes) ==
  IF t = "trackingUpdate" /\ Get(changes, trackingStatus) = Str("orderDelivered")
  THEN [made |-> <<"verifyDelivery">>, dispatch |-> FALSE,
        tasks |-> "deliveryVerified" :> Called(PortOptions, proofOfDelivery :> Proof)]
  ELSE IF t = "deliveryVerified"
  THEN [made |-> <<"completePayment">>, dispatch |-> FALSE,
        tasks |-> "paymentCompleted" :> Called(PortOptions, orderStatus :> Str(COMPLETE))]
  ELSE IF t = "orderFilled"
  THEN [made |-> <<"shipOrder">>, dispatch |-> FALSE,
        tasks |-> "orderShipped" :>
           Called(PortOptions, (shipmentId :> ShipmentId) @@ (orderStatus :> Str(SHIPPING)))]
  ELSE [made |-> <<>>, dispatch |-> t \in {"paymentCompleted", "orderShipped"},
        tasks |-> NoTasks]

\* a failure: the step or callback it happened in, the identity handleError
\* logged it with ("": it never reached handleError), and whether the
\* promise of handleStatusChange rejected with it
Failure(at, func, observed) == [at |-> at, func |-> func, observed |-> observed]

\* the failure of the adapter call that was given the callback t (or of
\* refundPayment): the steps PENDING, SHIPPING and CANCELED await their
\* calls in a try block (the PENDING step awaits Promise.all of its two
\* calls, which rejects with the first rejection and drops the second), the
\* APPROVED step does not await fillOrder, and the callbacks catch what
\* their chain of promises rejects with
CallFailure(t) ==
  CASE t \in {"addressValidated", "paymentAuthorized"} ->
         IF \E u \in DOMAIN tasks \ {t} :
              u \in {"addressValidated", "paymentAuthorized"} /\ tasks[u].pc = "rejected"
         THEN Failure(PENDING, "", FALSE)
         ELSE Failure(PENDING, PENDING, TRUE)
    [] t = "orderFilled" -> Failure(APPROVED, "", FALSE)
    [] t = "trackingUpdate" -> Failure(SHIPPING, SHIPPING, TRUE)
    [] t = "refundPayment" -> Failure(CANCELED, SHIPPING, TRUE)
    [] t = "deliveryVerified" -> Failure("handleTrackingUpdate", "handleTrackingUpdate", FALSE)
    [] t = "paymentCompleted" -> Failure("deliveryVerified", "deliveryVerified", FALSE)
    [] t = "orderShipped" -> Failure("orderFilled", "orderFilled", FALSE)

\* the failure of order.update in the callback t: .catch(error =>
\* handleError(error, t.name)), and what handleError throws is caught by
\* nobody
UpdateFailure(t) == Failure(t, t, FALSE)

\* the callbacks, and the answers of adapters, that are outstanding
InFlight ==
  [t \in {u \in DOMAIN tasks : tasks[u].pc \in {"called", "awaited", "found"}} |-> tasks[t]]

\* an order is added: it is created, and a CREATE event is raised for it
AddOrder(input) ==
  /\ events = NoEvent
  /\ CreateOrder(input)
  /\ events' = IF last'.error = NoError THEN Event("CREATE", EmptyObj) ELSE NoEvent
  /\ requests' = <<>>
  /\ errors' = {}
  /\ UNCHANGED <<steps, tasks>>

\* a caller's update, served when no callback is outstanding: the order is
\* updated, and an UPDATE event is raised
EditOrder(changes) ==
  /\ events = NoEvent
  /\ DOMAIN InFlight = {}
  /\ UpdateOrder(changes)
  /\ events' = IF last'.error = NoError THEN Event("UPDATE", changes) ELSE NoEvent
  /\ requests' = <<>>
  /\ errors' = {}
  /\ UNCHANGED <<steps, tasks>>

\* the event handler of the definition is run on the waiting event; the
\* adapters a step calls will call back and update the order
HandleOrderEvent(ts) ==
  /\ events # NoEvent
  /\ events' = NoEvent
  /\ IF handleOrderEvent(def, events)
     THEN /\ steps' = handleStatusChange(def, order)
          /\ requests' = handleStatusChange(def, order).calls
          /\ tasks' = Callbacks(handleStatusChange(def, order), ts) @@ InFlight
     ELSE /\ steps' = NoStep
          /\ requests' = <<>>
          /\ tasks' = tasks
  /\ errors' = {}
  /\ UNCHANGED <<def, order, last>>

\* the adapter calls the callback, which reads the order from the options
\* and calls order.update: updateOrder up to `await findOrder(order)`, the
\* stored order is read
FindOrder(t) ==
  /\ tasks[t].pc = "called"
  /\ "model" \in tasks[t].options
  /\ tasks' = [tasks EXCEPT ![t] = [@ EXCEPT !.pc = "found", !.current = order]]
  /\ requests' = <<>>
  /\ errors' = {}
  /\ UNCHANGED <<def, order, last, events, steps>>

\* the adapter calls the callback with options that hold no model: the
\* order the callback reads is undefined, order.update throws a TypeError
\* outside the chain of promises, and the promise of the callback, which
\* the adapter does not await, rejects
ThrowCallback(t) ==
  /\ tasks[t].pc = "called"
  /\ "model" \notin tasks[t].options
  /\ tasks' = [tasks EXCEPT ![t] = [@ EXCEPT !.pc = "threw"]]
  /\ errors' = {Failure(t, "", FALSE)}
  /\ requests' = <<>>
  /\ UNCHANGED <<def, order, last, events, steps>>

\* the adapter call rejects instead of calling back
RejectCall(t) ==
  /\ tasks[t].pc \in {"called", "awaited"}
  /\ tasks' = [tasks EXCEPT ![t] = [@ EXCEPT !.pc = "rejected"]]
  /\ errors' = {CallFailure(t)}
  /\ requests' = <<>>
  /\ UNCHANGED <<def, order, last, events, steps>>

\* the tasks after the callback t is through with its update: what the
\* callback starts, and what the step started that it dispatches
Started(t, saved, r, ts) ==
  IF ~saved THEN [tasks EXCEPT ![t] = [@ EXCEPT !.pc = "failed", !.current = NoOrder]]
  ELSE (IF Then(t, tasks[t].changes).dispatch
        THEN Callbacks(handleStatusChange(def, r.o), ts)
        ELSE Then(t, tasks[t].changes).tasks)
       @@ [tasks EXCEPT ![t] = [@ EXCEPT !.pc = "saved", !.current = NoOrder]]

\* updateOrder of a callback, from processUpdate(current, changes) to the
\* end of save, and the callback's .then of the update: the new snapshot is
\* stored and the callback goes on, or the Error goes to handleError
Saved(t, r, ts) ==
  /\ tasks' = Started(t, ~Failed(r), r, ts)
  /\ order' = IF Failed(r) THEN order ELSE r.o
  /\ errors' = IF Failed(r) THEN {UpdateFailure(t)} ELSE {}
  /\ steps' = IF ~Failed(r) /\ Then(t, tasks[t].changes).dispatch
              THEN handleStatusChange(def, r.o) ELSE steps
  /\ requests' = IF Failed(r) THEN <<>>
             ELSE IF Then(t, tasks[t].changes).dispatch
             THEN handleStatusChange(def, r.o).calls
             ELSE Then(t, tasks[t].changes).made

SaveOrder(t, ts) ==
  /\ tasks[t].pc = "found"
  /\ Saved(t, processUpdate(def, tasks[t].current, tasks[t].changes), ts)
  /\ UNCHANGED <<def, last, events>>

\* updateOrder of a callback whose save is refused by the persistence layer
\* because the stored order is no longer the one that was found: the Error
\* goes to handleError and nothing is stored
RejectSave(t) ==
  /\ tasks[t].pc = "found"
  /\ tasks[t].current # order
  /\ ~Failed(processUpdate(def, tasks[t].current, tasks[t].changes))
  /\ tasks' = [tasks EXCEPT ![t] = [@ EXCEPT !.pc = "failed", !.current = NoOrder]]
  /\ errors' = {UpdateFailure(t)}
  /\ requests' = <<>>
  /\ UNCHANGED <<def, order, last, events, steps>>

NextWorkflow ==
  \/ \E input \in Inputs : AddOrder(input)
  \/ \E changes \in StatusOnlyChanges : EditOrder(changes)
  \/ \E ts \in TrackingStatuses : HandleOrderEvent(ts)
  \/ \E t \in DOMAIN tasks : FindOrder(t)
  \/ \E t \in DOMAIN tasks : ThrowCallback(t)
  \/ \E t \in DOMAIN tasks : RejectCall(t)
  \/ \E t \in DOMAIN tasks, ts \in TrackingStatuses : SaveOrder(t, ts)
  \/ \E t \in DOMAIN tasks : RejectSave(t)

\* the order with the event handler, the steps and their callbacks
SpecWorkflow == Init /\ [][NextWorkflow]_vars

\* the callbacks of the PENDING step
ValidationCallbacks == {"addressValidated", "paymentAuthorized"}

\* a caller's update, served while the PENDING step is the last step run and
\* the answers of validateAddress and authorizePayment are outstanding: the
\* order is updated, and an UPDATE event is raised
EditDuringValidation(changes) ==
  /\ events = NoEvent
  /\ steps # NoStep /\ steps.status = Str(PENDING)
  /\ DOMAIN InFlight # {}
  /\ DOMAIN InFlight \subseteq ValidationCallbacks
  /\ \A t \in DOMAIN InFlight : tasks[t].pc = "called"
  /\ UpdateOrder(changes)
  /\ events' = IF last'.error = NoError THEN Event("UPDATE", changes) ELSE NoEvent
  /\ requests' = <<>>
  /\ errors' = {}
  /\ UNCHANGED <<steps, tasks>>

NextRace ==
  \/ \E input \in Inputs : AddOrder(input)
  \/ \E changes \in StatusOnlyChanges : EditDuringValidation(changes)
  \/ \E ts \in TrackingStatuses : HandleOrderEvent(ts)
  \/ \E t \in DOMAIN tasks : FindOrder(t)
  \/ \E t \in DOMAIN tasks : ThrowCallback(t)
  \/ \E t \in DOMAIN tasks : RejectCall(t)
  \/ \E t \in DOMAIN tasks, ts \in TrackingStatuses : SaveOrder(t, ts)
  \/ \E t \in DOMAIN tasks : RejectSave(t)

\* the workflow with callers' updates that overtake the answers of the
\* PENDING step
SpecRace == Init /\ [][NextRace]_vars

\* validateProperties(validations)(o) on a merged object
ValidateOrder(o) ==
  /\ last' = Call("validate", o.f, o.prev.orderStatus,
                  validateProperties(def, validations, o).error)
  /\ UNCHANGED <<def, order>>

NextValidate ==
  \/ \E o \in MergedObjects : ValidateOrder(o) /\ UNCHANGED workflow

\* the validate guard of the definitions on merged objects
SpecValidate == Init /\ [][NextValidate]_vars

\* the names guards attach themselves with, and the phases
MixinNames == {"freezeProperties", "updateProperties", "validateProperties"}
MixinTypes == {"pre", "post"}

\* a snapshot that carries no Map, and the Maps when there is none
BareSnapshot == [f |-> (orderStatus :> Str(PENDING)), pre |-> NoMap, post |-> NoMap]
NoMaps == [type \in MixinTypes |-> <<>>]

\* the snapshot and the Maps the last call of updateMixins left
Attached == IF last.op = "attach" THEN last.arg.returned ELSE BareSnapshot
MapsNow == IF last.op = "attach" THEN last.arg.after ELSE NoMaps

\* updateMixins(type, o, name, cb) on the snapshot the last call returned
AttachMixin(type, name) ==
  /\ last' = Call("attach",
                  [type |-> type, name |-> name, o |-> Attached, before |-> MapsNow,
                   returned |-> updateMixinSet(type, Attached, name, MapsNow).o,
                   after |-> updateMixinSet(type, Attached, name, MapsNow).maps,
                   built |-> updateMixinSet(type, Attached, name, MapsNow).built],
                  Undefined, NoError)
  /\ UNCHANGED <<def, order>>

NextAttach ==
  \/ \E type \in MixinTypes, name \in MixinNames :
        AttachMixin(type, name) /\ UNCHANGED workflow

\* guards attaching themselves to a snapshot
SpecAttach == Init /\ [][NextAttach]_vars

NextStatus ==
  \/ \E input \in Inputs : CreateOrder(input) /\ UNCHANGED workflow
  \/ \E changes \in ResetChanges : UpdateOrder(changes) /\ UNCHANGED workflow

\* the order under updates of its status, null included
SpecStatus == Init /\ [][NextStatus]_vars

NextInfo ==
  \/ \E input \in Inputs : CreateOrder(input) /\ UNCHANGED workflow
  \/ \E changes \in InfoChanges : UpdateOrder(changes) /\ UNCHANGED workflow

\* the order under updates of its customer and its status
SpecInfo == Init /\ [][NextInfo]_vars

NextCard ==
  \/ \E input \in CardInputs : CreateOrder(input) /\ UNCHANGED workflow
  \/ \E changes \in StatusOnlyChanges : UpdateOrder(changes) /\ UNCHANGED workflow

\* orders created with either card number
SpecCard == Init /\ [][NextCard]_vars

NextDelete ==
  \/ \E input \in Inputs : CreateOrder(input) /\ UNCHANGED workflow
  \/ \E changes \in StatusOnlyChanges : UpdateOrder(changes) /\ UNCHANGED workflow
  \/ \E model \in DeleteRequests : DeleteOrder(model) /\ UNCHANGED workflow

\* the order under status changes and deletion
SpecDelete == Init /\ [][NextDelete]_vars

\* ------------------------------------------------------------------ claims

Updated == last.op = "update"
Accepted == last.error = NoError
Proposes(k) == k \in DOMAIN last.arg
StatusNow == Get(order.f, orderStatus)
Readonly == "cannot update readonly properties"

\* the five edges the specification calls illegal, as <<from, to>>
IllegalEdges ==
  { <<APPROVED, PENDING>>, <<SHIPPING, PENDING>>, <<SHIPPING, APPROVED>>,
    <<PENDING, SHIPPING>>, <<PENDING, COMPLETE>> }

Edge == <<last.from.str, last.arg[orderStatus].str>>

\* the sum of the prices of an item list, counted from its last item
RECURSIVE SumOf(_)
SumOf(s) == IF Len(s) = 0 THEN 0 ELSE SumOf(SubSeq(s, 1, Len(s) - 1)) + s[Len(s)].price

\* C1: an update that proposes the status `to` on an order whose status is
\* `from` is rejected for each of the five illegal edges: the order keeps its
\* status, and when the change is the status alone the Error is 'invalid
\* status change'.
C1_IllegalEdgesRejected ==
  (Updated /\ Proposes(orderStatus) /\ Edge \in IllegalEdges) =>
     /\ ~Accepted
     /\ StatusNow = last.from
     /\ (DOMAIN last.arg = {orderStatus} => last.error.msg = "invalid status change")

\* C2 as stated: an update whose only change is the status is accepted for
\* every pair of statuses that is not one of the five illegal edges, a
\* repeated status included, and the new snapshot has the proposed status.
C2_OtherEdgesAccepted ==
  (Updated /\ DOMAIN last.arg = {orderStatus} /\ Edge \notin IllegalEdges) =>
     (Accepted /\ StatusNow = last.arg[orderStatus])

\* C2 as amended: that holds when the status before is PENDING, APPROVED or
\* SHIPPING; when it is COMPLETE or CANCELED every such update, a repeated
\* status included, is rejected as a change of the readonly orderStatus.
C2_OpenEdgesAccepted ==
  (Updated /\ DOMAIN last.arg = {orderStatus} /\ Edge \notin IllegalEdges) =>
     IF last.from.str \in {PENDING, APPROVED, SHIPPING}
     THEN Accepted /\ StatusNow = last.arg[orderStatus]
     ELSE /\ last.error.msg = Readonly
          /\ last.error.keys = {orderStatus}
          /\ StatusNow = last.from

C2_Witness ==
  /\ Updated /\ Accepted
  /\ last.from = Str(APPROVED)
  /\ last.arg = (orderStatus :> Str(SHIPPING))
  /\ StatusNow = Str(SHIPPING)

C3_Rejected ==
  (Updated /\ Proposes(orderStatus) /\ last.from.str \in {COMPLETE, CANCELED}) =>
     /\ last.error.msg = Readonly
     /\ orderStatus \in last.error.keys
     /\ StatusNow = last.from

C3_Step ==
  (order # NoOrder /\ StatusNow.str \in {COMPLETE, CANCELED}) =>
     Get(order'.f, orderStatus) = StatusNow

\* C3: once the order is COMPLETE or CANCELED, every update whose changes
\* contain orderStatus fails with the readonly Error naming orderStatus, and
\* no step changes the status of the order again.
C3_TerminalStatusFrozen == [](C3_Rejected) /\ [][C3_Step]_vars

C3_Witness ==
  /\ Updated /\ last.from = Str(COMPLETE)
  /\ last.arg = (orderStatus :> Str(CANCELED))
  /\ last.error.msg = Readonly
  /\ StatusNow = Str(COMPLETE)

FrozenOnApproval == {orderItems, creditCardNumber, shippingAddress, billingAddress}

\* C4: when the status before is not PENDING, an update whose changes contain
\* any of orderItems, creditCardNumber, shippingAddress, billingAddress fails
\* with the readonly Error naming each of them, whatever status the change
\* proposes; when the status before is PENDING the freeze guard rejects none
\* of them.
C4_FrozenOnApproval ==
  Updated =>
    LET hit == DOMAIN last.arg \cap FrozenOnApproval
    IN /\ (last.from # Str(PENDING) /\ hit # {}) =>
             /\ last.error.msg = Readonly
             /\ hit \subseteq last.error.keys
             /\ StatusNow = last.from
       /\ last.from = Str(PENDING) =>
             ~(last.error.msg = Readonly /\ last.error.keys \cap FrozenOnApproval # {})

C4_Witness ==
  /\ Updated /\ last.from = Str(SHIPPING)
  /\ DOMAIN last.arg = {shippingAddress, orderStatus}
  /\ last.arg[orderStatus] = Str(PENDING)
  /\ last.error.msg = Readonly
  /\ last.error.keys = {shippingAddress}

\* C5: in every stored order, orderTotal is the sum of the prices of its
\* orderItems.
C5_TotalIsSumOfItems ==
  order # NoOrder =>
     /\ IsArray(Get(order.f, orderItems))
     /\ Get(order.f, orderTotal) = Num(SumOf(Get(order.f, orderItems).arr))

\* C6: createOrder with the item list I stores an order whose orderTotal is
\* the sum of the prices of I, and an accepted update whose changes contain
\* the item list I' stores I' and the sum of its prices, whatever orderTotal
\* the same change proposes.
C6_TotalRecomputed ==
  /\ (last.op = "create" /\ Accepted) =>
        /\ Get(order.f, orderItems) = last.arg[orderItems]
        /\ Get(order.f, orderTotal) = Num(SumOf(last.arg[orderItems].arr))
  /\ (Updated /\ Accepted /\ Proposes(orderItems) /\ IsArray(last.arg[orderItems])) =>
        /\ Get(order.f, orderItems) = last.arg[orderItems]
        /\ Get(order.f, orderTotal) = Num(SumOf(last.arg[orderItems].arr))

C6_Witness ==
  /\ Updated /\ Accepted
  /\ DOMAIN last.arg = {orderItems, orderTotal}
  /\ last.arg[orderItems] = Arr(<<Item(1), Item(1)>>)
  /\ Get(order.f, orderTotal) = Num(2)

C8_MissingBillingAddress ==
  (/\ last.op = "require"
   /\ DOMAIN last.arg = InputKeys \ {billingAddress}
   /\ checkItems(last.arg[orderItems]).msg = "") =>
     /\ last.error.msg = "missing required properties"
     /\ last.error.missing = <<Str(billingAddress)>>

\* C9: every stored order whose status is COMPLETE has a truthy
\* proofOfDelivery (an update to COMPLETE without one is rejected).
C9_CompleteHasProof ==
  (order # NoOrder /\ StatusNow = Str(COMPLETE)) =>
     Truthy(Get(order.f, proofOfDelivery))

\* C10: when requiredForCompletion returns no key, the require guard passes
\* whenever every literal required key is truthy, and its list of missing
\* keys holds no undefined entry.
C10_NoKeyNoRequirement ==
  (/\ last.op = "require"
   /\ checkItems(Get(last.arg, orderItems)).msg = "") =>
     /\ Undefined \notin Range(last.error.missing)
     /\ DOMAIN last.arg = InputKeys => Accepted

\* the guard names a snapshot carries in its two mixin sets
Registered == Range(order.pre) \cup Range(order.post)

\* C11: every guard of the definition's list (require, freeze, update,
\* validate, allow) is registered by name in the pre or post mixin set of
\* every stored order, so that processUpdate runs it on every update.
C11_GuardsSticky ==
  order # NoOrder => Registered = Range(MixinList(def))

\* the changes of the last update as the pre guards received them
LastChanges ==
  [Obj(last.arg) EXCEPT !.prev = [set |-> TRUE, orderStatus |-> last.from]]

PostErrors == {"invalid status change", "invalid value for"}

C12_Order ==
  order # NoOrder =>
    /\ order.pre = SelectSeq(MixinList(def), LAMBDA name : name \in Range(order.pre))
    /\ order.post = SelectSeq(MixinList(def), LAMBDA name : name \in Range(order.post))

C12_PreFirst ==
  (Updated /\ last.error.msg \in PostErrors) =>
     ~Failed(freezeProperties(TRUE, freezeKeys, LastChanges))

C12_Step ==
  (last'.op = "update" /\ last'.error = NoError) =>
     (order'.pre = order.pre /\ order'.post = order.post)

C13_Step ==
  (last'.op = "update" /\ last'.error # NoError) => order' = order

\* C13: an update that a pre or post guard rejects stores nothing: the
\* stored order, its fields and its mixin sets, is what it was before.
C13_FailedUpdateStoresNothing == [][C13_Step]_vars

C13_Witness ==
  /\ Updated /\ last.from = Str(APPROVED)
  /\ last.arg = (orderStatus :> Str(PENDING))
  /\ last.error.msg = "invalid status change"
  /\ StatusNow = Str(APPROVED)

\* the keys an update spec produces for the changes c: orderTotal, when c
\* holds truthy orderItems
Derived(c) == IF Truthy(Get(c, orderItems)) THEN {orderTotal} ELSE {}

C14_Kept ==
  \A k \in DOMAIN order.f \ (DOMAIN last'.arg \cup Derived(last'.arg)) :
     Get(order'.f, k) = order.f[k]

C14_Empty ==
  (last'.op = "update" /\ last'.arg = EmptyObj) =>
     (last'.error = NoError /\ order'.f = order.f)

C14_StepAsStated ==
  /\ (last'.op = "update" /\ last'.error = NoError) =>
        /\ C14_Kept
        /\ \A k \in DOMAIN last'.arg : Get(order'.f, k) = last'.arg[k]
  /\ C14_Empty

C14_Step ==
  /\ (last'.op = "update" /\ last'.error = NoError) =>
        /\ C14_Kept
        /\ \A k \in DOMAIN last'.arg \ Derived(last'.arg) :
              Get(order'.f, k) = last'.arg[k]
        /\ \A k \in Derived(last'.arg) :
              Get(order'.f, k) = recalcTotal(order, last'.arg[orderItems]).f[k]
  /\ C14_Empty

\* C14 as stated: an accepted update keeps every field of the order that is
\* neither a key of the changes nor produced by an update spec, gives every
\* key of the changes the value of the changes, and the empty change set is
\* accepted and changes no field.
C14_ChangesWin == [][C14_StepAsStated]_vars

\* C14 as amended: the same, but a key of the changes that an update spec
\* also produces (orderTotal, when the changes hold orderItems) has the
\* produced value, not the value of the changes.
C14_ChangesWinButDerived == [][C14_Step]_vars

C14_Witness ==
  /\ Updated /\ Accepted
  /\ DOMAIN last.arg = {orderItems, orderTotal}
  /\ last.arg[orderItems] = Arr(<<Item(1)>>)
  /\ Get(order.f, orderTotal) = Num(1)

\* the names of the Order definition's allow list
AllowList == {allowKeys[i].key : i \in DOMAIN allowKeys}

\* C15: the visible keys of every stored order of the Order definition (the
\* one with the allow list) are keys of the allow list.
C15_KeysAllowed ==
  (def = "Order" /\ order # NoOrder) => DOMAIN order.f \subseteq AllowList

\* C16: with the allow guard of the Order definition, an update whose changes
\* hold keys outside the allow list is rejected, with 'invalid properties'
\* listing every such key unless an earlier pre guard threw; an update whose
\* keys are all in the list is not rejected by the allow guard; and creation
\* is never rejected by it.
C16_UnknownKeysRejected ==
  /\ (Updated /\ def = "Order") =>
        LET unknown == DOMAIN last.arg \ AllowList
            earlier == \/ Failed(freezeProperties(TRUE, freezeKeys, LastChanges))
                       \/ Failed(updateProperties(TRUE, updaters, LastChanges))
        IN /\ unknown # {} => ~Accepted
           /\ (unknown # {} /\ ~earlier) =>
                 (last.error.msg = "invalid properties" /\ last.error.keys = unknown)
           /\ unknown = {} => last.error.msg # "invalid properties"
  /\ last.op = "create" => last.error.msg # "invalid properties"

C16_Witness ==
  /\ Updated /\ def = "Order"
  /\ DOMAIN last.arg = {cancelReason, trackingId}
  /\ last.error.msg = "invalid properties"
  /\ last.error.keys = {cancelReason, trackingId}

C17_Verdict ==
  last.op = "delete" =>
    IF last.from \in {Str(COMPLETE), Str(CANCELED)}
    THEN Accepted /\ order = NoOrder
    ELSE last.error.msg = "order status incomplete" /\ order # NoOrder

C17_Step ==
  (last'.op = "delete" /\ last'.error # NoError) => order' = order

\* C17: deleting an order succeeds exactly when the status of the model is
\* COMPLETE or CANCELED; with PENDING, APPROVED, SHIPPING or no status it
\* fails with 'order status incomplete' and the stored order stays as it is.
C17_DeleteOnlyWhenDone == [](C17_Verdict) /\ [][C17_Step]_vars

C17_Witness ==
  /\ last.op = "delete" /\ last.from = Str(CANCELED)
  /\ Accepted /\ order = NoOrder

\* the collaborators the specification has the step of a status call
StepCalls(status) ==
  CASE status = PENDING -> {"validateAddress", "authorizePayment"}
    [] status = APPROVED -> {"fillOrder"}
    [] status = SHIPPING -> {"trackShipment"}
    [] status = CANCELED -> {"refundPayment"}
    [] status = COMPLETE -> {}

\* C18_Calls: the calls of the step that was run are those of its status;
\* C18_Step: the step the handler runs is the one of the order's status.
\* C18: handleStatusChange runs the step of the order's status, and the step
\* calls validateAddress and authorizePayment for PENDING, fillOrder for
\* APPROVED, trackShipment for SHIPPING, refundPayment for CANCELED and no
\* collaborator for COMPLETE.
C18_Calls ==
  steps # NoStep => Range(steps.calls) = StepCalls(steps.status.str)

C18_Step ==
  (events # NoEvent /\ events' = NoEvent /\ steps' # NoStep) => steps'.status = Get(order.f, orderStatus)

C18_StepOfStatus == [](C18_Calls) /\ [][C18_Step]_vars

\* C20: when the updates of addressValidated and of paymentAuthorized have
\* both been saved, the stored order has the validated shippingAddress and
\* the paymentAuthorization.
C20_UpdatesCommute ==
  (/\ DOMAIN tasks = {"addressValidated", "paymentAuthorized"}
   /\ \A t \in DOMAIN tasks : tasks[t].pc = "saved") =>
     /\ Get(order.f, shippingAddress) = ValidatedAddress
     /\ Get(order.f, paymentAuthorization) = Authorization

\* the callback t goes from one place of its update to another in this step
Did(t, from, to) ==
  /\ t \in DOMAIN tasks /\ tasks[t].pc = from
  /\ t \in DOMAIN tasks' /\ tasks'[t].pc = to

\* the adapter that is given the callback t is called in this step
Begun(t) ==
  /\ t \in DOMAIN tasks' /\ tasks'[t].pc = "called"
  /\ t \notin DOMAIN tasks \/ tasks[t].pc # "called"

Delivered(t) == Get(tasks[t].changes, trackingStatus) = Str("orderDelivered")

\* a tracking update that is stored calls verifyDelivery when its status is
\* orderDelivered and calls nothing otherwise, and nothing else calls it
C21_Tracking ==
  /\ Did("trackingUpdate", "found", "saved") =>
       IF Delivered("trackingUpdate")
       THEN requests' = <<"verifyDelivery">> /\ Begun("deliveryVerified")
       ELSE requests' = <<>> /\ ~Begun("deliveryVerified") /\ ~Begun("paymentCompleted")
  /\ ("verifyDelivery" \in Range(requests') \/ Begun("deliveryVerified")) =>
       Did("trackingUpdate", "found", "saved") /\ Delivered("trackingUpdate")

\* completePayment is called in the step that stores the proof of delivery,
\* and in no other
C21_Verified ==
  /\ Did("deliveryVerified", "found", "saved") =>
       /\ Get(order'.f, proofOfDelivery) = Proof
       /\ requests' = <<"completePayment">>
       /\ Begun("paymentCompleted")
  /\ ("completePayment" \in Range(requests') \/ Begun("paymentCompleted")) =>
       Did("deliveryVerified", "found", "saved")

\* the update to COMPLETE is the one of paymentCompleted
C21_Completed ==
  /\ Did("paymentCompleted", "found", "saved") => Get(order'.f, orderStatus) = Str(COMPLETE)
  /\ \A t \in DOMAIN tasks' :
       Get(tasks'[t].changes, orderStatus) = Str(COMPLETE) => t = "paymentCompleted"

\* payment is completed only for a delivery whose proof was stored
C21_ProofFirst ==
  (def # "Order" /\ "paymentCompleted" \in DOMAIN tasks) =>
     "deliveryVerified" \in DOMAIN tasks /\ tasks["deliveryVerified"].pc = "saved"

\* C21: in the SHIPPING workflow of orderMixins a tracking update with the
\* status orderDelivered, and no other, calls verifyDelivery; the answer of
\* verifyDelivery stores proofOfDelivery and then completePayment is called;
\* the answer of completePayment updates the order to COMPLETE; COMPLETE is
\* never set by the workflow before proofOfDelivery was stored.
C21_ShippingInOrder ==
  /\ [](C21_ProofFirst)
  /\ [][def # "Order" => C21_Tracking /\ C21_Verified /\ C21_Completed]_vars

C21_Witness ==
  /\ "paymentCompleted" \in DOMAIN tasks /\ tasks["paymentCompleted"].pc = "saved"
  /\ Get(order.f, orderStatus) = Str(COMPLETE)
  /\ Get(order.f, proofOfDelivery) = Proof

\* the confirmation of fillOrder arrives: the adapter calls orderFilled
Confirmed == Did("orderFilled", "called", "found") \/ Did("orderFilled", "called", "threw")

\* C22: in the APPROVED workflow of orderMixins, when the confirmation of
\* fillOrder arrives the order is updated with the pickup address of the
\* event (the adapter hands the order and the address to orderFilled in the
\* form orderFilled reads them), then shipOrder is called, once and nowhere
\* else, and the answer of the shipping adapter updates the order to
\* SHIPPING.
C22_Step ==
  def # "Order" =>
    /\ Confirmed =>
         /\ tasks'["orderFilled"].pc = "found"
         /\ Get(tasks'["orderFilled"].changes, pickupAddress) = WarehouseAddr
    /\ Did("orderFilled", "found", "saved") =>
         /\ Get(order'.f, pickupAddress) = WarehouseAddr
         /\ requests' = <<"shipOrder">>
    /\ "shipOrder" \in Range(requests') => Did("orderFilled", "found", "saved")
    /\ Did("orderShipped", "found", "saved") => Get(order'.f, orderStatus) = Str(SHIPPING)

C22_ApprovedInOrder == [][C22_Step]_vars

\* C23: a failure that is logged is logged with the identity of the step or
\* callback that made the failing call.
C23_LoggedAsItself ==
  \A e \in errors : e.func # "" => e.func = e.at

\* C24: every failure of an adapter call or of a callback's update reaches
\* handleError, and the promise of handleStatusChange rejects with it.
C24_NoFailureDropped ==
  \A e \in errors : e.func # "" /\ e.observed

\* the card numbers that match the card-number pattern
CardPattern == {"378282246310005"}

\* C25: createOrder with valid items and a creditCardNumber that does not
\* match the card-number pattern fails with 'creditCard invalid' and stores
\* no order; with a number that matches it does not fail so.
C25_BadCardRejected ==
  (/\ last.op = "create"
   /\ checkItems(last.arg[orderItems]).msg = "") =>
     IF last.arg[creditCardNumber].str \in CardPattern
     THEN last.error.msg # "creditCard invalid"
     ELSE last.error.msg = "creditCard invalid" /\ order = NoOrder

\* C26: an order whose items sum to MAXORDER or less passes the validation
\* of orderTotal, on creation and on an update of the items, and one whose
\* items sum to more does not.
C26_CeilingInclusive ==
  LET items == Get(last.arg, orderItems)
      priced == IsArray(items) /\ checkItems(items).msg = ""
      rejected == last.error.msg = "invalid value for" /\ orderTotal \in last.error.keys
  IN (priced /\ (last.op = "create" \/ (Updated /\ last.from = Str(PENDING)))) =>
        (rejected <=> SumOf(items.arr) > MAXORDER)

\* an enabled check of the spec v fails on the value val of the object o
CheckFails(v, o, val) ==
  \/ v.isValid # "" /\ ~statusChangeValid(def, o, val)
  \/ v.values # <<>> /\ val \notin Range(v.values)
  \/ v.typeof # "" /\ v.typeof # val.type
  \/ v.maxnum # 0 /\ ~(val.type = "number" /\ val.num <= v.maxnum)

\* the fields of the object validated last that are truthy and fail a check
InvalidFields ==
  LET o == [f |-> last.arg, pre |-> <<>>, post |-> <<>>,
            prev |-> [set |-> TRUE, orderStatus |-> last.from]]
  IN {validations[i].propKey :
        i \in {j \in DOMAIN validations :
                 /\ Truthy(Get(last.arg, validations[j].propKey))
                 /\ CheckFails(validations[j], o, Get(last.arg, validations[j].propKey))}}

\* C27: validate fails exactly when a field of a spec is truthy and fails
\* one of the spec's enabled checks, and the error names the fields that do
\* and no other.
C27_ValidateExact ==
  last.op = "validate" =>
    /\ Failed([error |-> last.error]) <=> InvalidFields # {}
    /\ last.error.keys = InvalidFields

\* the names the snapshot o carries for a phase, the Maps being maps
SetOf(o, type, maps) == IF o[type] = NoMap THEN <<>> ELSE maps[o[type]]

OtherType(type) == IF type = "pre" THEN "post" ELSE "pre"

\* C28: updateMixins with a name the phase's set holds returns the snapshot
\* it was given, leaves the set as it is and does not call the factory; with
\* a new name it returns a snapshot whose set for the phase is the old set
\* and the name, whose other set and fields are those of the snapshot given,
\* and the set of the snapshot given is what it was.
C28_AttachIdempotent ==
  last.op = "attach" =>
    LET a == last.arg
    IN IF a.name \in Range(SetOf(a.o, a.type, a.before))
       THEN /\ a.returned = a.o
            /\ a.after = a.before
            /\ ~a.built
       ELSE /\ SetOf(a.returned, a.type, a.after) =
                 Append(SetOf(a.o, a.type, a.before), a.name)
            /\ SetOf(a.returned, OtherType(a.type), a.after) =
                 SetOf(a.o, OtherType(a.type), a.before)
            /\ a.returned.f = a.o.f
            /\ SetOf(a.o, a.type, a.after) = SetOf(a.o, a.type, a.before)

\* the snapshot an accepted update stored carries the status of the snapshot
\* it was made from, and the update passed the transition and freeze checks
\* of that status
C29_Prev ==
  (Updated /\ Accepted) =>
     /\ order.prev = [set |-> TRUE, orderStatus |-> last.from]
     /\ Proposes(orderStatus) =>
          /\ last.from \notin {Str(COMPLETE), Str(CANCELED)}
          /\ \A i \in DOMAIN invalidStatusChanges(def) :
               ~(/\ invalidStatusChanges(def)[i].from = last.from
                 /\ invalidStatusChanges(def)[i].to = last.arg[orderStatus])

\* the visible keys of the snapshot an accepted update stores are those of
\* the snapshot before, of the changes and of what the changes derive
C29_Step ==
  (last'.op = "update" /\ last'.error = NoError) =>
     DOMAIN order'.f = DOMAIN order.f \cup DOMAIN last'.arg \cup Derived(last'.arg)

\* C29: along a chain of accepted updates the predecessor the guards see,
\* and the stored snapshot carries, is the snapshot the update was made
\* from, never an older one, and it is not among the visible keys.
C29_PrevIsPredecessor == [](C29_Prev) /\ [][C29_Step]_vars

C29_Witness ==
  /\ Updated /\ Accepted
  /\ last.from = Str(APPROVED)
  /\ StatusNow = Str(SHIPPING)
  /\ order.prev.orderStatus = Str(APPROVED)

C30_Step ==
  (order # NoOrder /\ StatusNow # Str(PENDING)) => Get(order'.f, orderStatus) # Str(PENDING)

\* C30: an order whose status is not PENDING never has the status PENDING
\* again, whatever updates are made.
C30_NeverBackToPending == [][C30_Step]_vars

\* an update whose changes hold customerInfo fails as an update of a readonly
\* property that names customerInfo, and a created order has the customer
\* of its input
C31_Rejected ==
  /\ (Updated /\ Proposes(customerInfo)) =>
        /\ last.error.msg = Readonly
        /\ customerInfo \in last.error.keys
  /\ (last.op = "create" /\ Accepted) =>
        Get(order.f, customerInfo) = last.arg[customerInfo]

\* the customer of a stored order stays what it is
C31_Step ==
  order # NoOrder => Get(order'.f, customerInfo) = Get(order.f, customerInfo)

\* C31: every update whose changes contain customerInfo fails with the
\* readonly error, in every status, and customerInfo keeps the value it was
\* created with.
C31_CustomerFrozen == [](C31_Rejected) /\ [][C31_Step]_vars

C31_Witness ==
  /\ Updated /\ Proposes(customerInfo)
  /\ last.from = Str(PENDING)
  /\ last.arg[customerInfo] = Str("user2")
  /\ last.error.msg = Readonly
  /\ Get(order.f, customerInfo) = Str("user1")

\* C32: the changes a workflow callback hands to order.update hold only keys
\* of the allow list, and no such update is rejected for invalid properties.
C32_CallbackKeysAllowed ==
  \A t \in DOMAIN tasks :
    /\ DOMAIN tasks[t].changes \subseteq AllowList
    /\ tasks[t].pc = "found" =>
         processUpdate(def, tasks[t].current, tasks[t].changes).error.msg
           # "invalid properties"

\* the callback t has read a stored order that has left PENDING
Late(t) ==
  /\ t \in DOMAIN tasks
  /\ tasks[t].pc = "found"
  /\ Get(tasks[t].current.f, orderStatus) # Str(PENDING)

C33_Rejected ==
  /\ Late("addressValidated") =>
       /\ processUpdate(def, tasks["addressValidated"].current,
                        tasks["addressValidated"].changes).error.msg
            = "cannot update readonly properties"
       /\ ~ENABLED RejectSave("addressValidated")
  /\ Late("paymentAuthorized") =>
       ~Failed(processUpdate(def, tasks["paymentAuthorized"].current,
                             tasks["paymentAuthorized"].changes))

C33_Step ==
  /\ (Late("addressValidated") /\ tasks'["addressValidated"].pc # "found") =>
       /\ tasks'["addressValidated"].pc = "failed"
       /\ order' = order
       /\ errors' = {UpdateFailure("addressValidated")}
  /\ (/\ Late("paymentAuthorized")
      /\ tasks'["paymentAuthorized"].pc = "saved") =>
       /\ Get(order'.f, paymentAuthorization) = Authorization
       /\ Get(order'.f, orderStatus) = Get(tasks["paymentAuthorized"].current.f, orderStatus)

\* C33: when the stored order has left PENDING (approved or canceled) before
\* the answer of validateAddress arrives, the update {shippingAddress} of
\* addressValidated is rejected for a readonly property, nothing is stored
\* and the order keeps its shippingAddress; the update {paymentAuthorization}
\* of paymentAuthorized passes the guards in that state and is stored.
C33_LateAddressRejected == [](C33_Rejected) /\ [][C33_Step]_vars

C33_Witness ==
  /\ "addressValidated" \in DOMAIN tasks /\ tasks["addressValidated"].pc = "failed"
  /\ "paymentAuthorized" \in DOMAIN tasks /\ tasks["paymentAuthorized"].pc = "saved"
  /\ Get(order.f, orderStatus) = Str(CANCELED)
  /\ Get(order.f, paymentAuthorization) = Authorization
  /\ Get(order.f, shippingAddress) # ValidatedAddress
  /\ errors = {UpdateFailure("addressValidated")}
====
